---- MODULE Spec2Model ----
(***************************************************************************)
(* Model of the HHI pipeline of solscore: HhiController.getHHI calls       *)
(* SolanaService.calculateHHI, which calls getAllTokenHolders (a paged     *)
(* fetch loop over rpcRequest) and then aggregates and ranks the holders.  *)
(*                                                                         *)
(* Amount strings are modelled as sequences of character codes: 0..9 are   *)
(* the decimal digits, NonDigit is any other character.  "25" is <<2, 5>>. *)
(* A percentage is kept in units of 1/10000 percent: the code computes     *)
(* Number(q) / 10000 for an integer q <= 1000000, which is exact enough to *)
(* be injective and monotone in q, so the model keeps q.                   *)
(***************************************************************************)
EXTENDS Integers, Sequences, FiniteSets, TLC

\* ------------------------------------------------------------------ bounds

\* pageSize of getAllTokenHolders (default 1000 in the source), scaled down.
PageSize == 2
\* Largest number of token accounts the ledger holds for the mint.
MaxAccounts == 4
\* Largest number of accounts of a ledger in InitLoop.
MaxLoopAccounts == 3
\* Number of pages of an endless ledger the model follows.
MaxPages == 3
\* Longest holder list drawn from the full record set in InitCalc.
MaxShort == 3
\* Longest holder list drawn from the two-record set in InitCalc.
MaxHolders == 11

\* --------------------------------------------------------------- constants

\* sortedHolders.slice(0, 10)
TopN == 10

EXCLUDED_ADDRESSES ==
    { "11111111111111111111111111111111",
      "1nc1nerator11111111111111111111111111111111" }

\* A character of an amount string that is not a decimal digit.
NonDigit == 10

\* The literal '0' the fetch filter compares amounts with.
ZeroString == <<0>>

\* ---------------------------------------------------------------- strings

Min(a, b) == IF a < b THEN a ELSE b

\* Whether BigInt(s) succeeds: the empty string and strings of decimal
\* digits convert, anything else raises a SyntaxError.
IsNumeric(s) == \A i \in 1..Len(s) : s[i] \in 0..9

\* BigInt(s) for a string BigInt accepts; BigInt("") is 0n, leading zeros
\* are ignored.
RECURSIVE BigIntOf(_)
BigIntOf(s) ==
    IF Len(s) = 0 THEN 0
    ELSE 10 * BigIntOf(SubSeq(s, 1, Len(s) - 1)) + s[Len(s)]

\* n.toString() for a BigInt n >= 0: the canonical decimal digits.
RECURSIVE BigIntToString(_)
BigIntToString(n) ==
    IF n < 10 THEN <<n>>
    ELSE Append(BigIntToString(n \div 10), n % 10)

\* ------------------------------------------------------------ calculateHHI

\* Mutant of emptyResult: the label of getConcentrationLevel(0).
emptyResultLabelled ==
    [ hhi |-> 0,
      totalSupply |-> ZeroString,
      holderCount |-> 0,
      topHolders |-> << >>,
      concentrationLevel |-> "Decentralized" ]

emptyResult ==
    [ hhi |-> 0,
      totalSupply |-> ZeroString,
      holderCount |-> 0,
      topHolders |-> << >>,
      concentrationLevel |-> "No active holders" ]

\* Mutant of getConcentrationLevel: the thresholds are exclusive.
getConcentrationLevelExclusive(hhi) ==
    IF hhi > 5000 THEN "Extreme concentration (risk of manipulation)"
    ELSE IF hhi > 2500 THEN "High concentration"
    ELSE IF hhi > 1500 THEN "Moderate concentration"
    ELSE "Decentralized"

getConcentrationLevel(hhi) ==
    IF hhi >= 5000 THEN "Extreme concentration (risk of manipulation)"
    ELSE IF hhi >= 2500 THEN "High concentration"
    ELSE IF hhi >= 1500 THEN "Moderate concentration"
    ELSE "Decentralized"

\* Mutant of SumAmounts: the reduce leaves the first holder out.
RECURSIVE SumAmountsSkipFirst(_)
SumAmountsSkipFirst(holders) ==
    IF Len(holders) <= 1 THEN 0
    ELSE SumAmountsSkipFirst(SubSeq(holders, 1, Len(holders) - 1))
         + BigIntOf(holders[Len(holders)].amount)

\* holders.reduce((sum, holder) => sum + BigInt(holder.amount), BigInt(0))
RECURSIVE SumAmounts(_)
SumAmounts(holders) ==
    IF Len(holders) = 0 THEN 0
    ELSE SumAmounts(SubSeq(holders, 1, Len(holders) - 1))
         + BigIntOf(holders[Len(holders)].amount)

\* Number((amount * BigInt(1000000)) / totalSupply), before the / 10000.
PercentageOf(amount, totalSupply) == (amount * 1000000) \div totalSupply

\* Mutant of SquaredTerm: the total is not squared.
SquaredTermUnsquaredTotal(amount, totalSupply) ==
    (amount * amount * 10000) \div totalSupply

\* (amount * amount * BigInt(10000)) / (totalSupply * totalSupply)
SquaredTerm(amount, totalSupply) ==
    (amount * amount * 10000) \div (totalSupply * totalSupply)

\* The array the map callback returns: one entry per holder, in fetch order.
holdersWithPercentage(holders, totalSupply) ==
    [ i \in 1..Len(holders) |->
        [ account |-> holders[i].account,
          amount |-> holders[i].amount,
          percentage |-> PercentageOf(BigIntOf(holders[i].amount), totalSupply) ] ]

\* Mutant of HhiSum: only the first TopN holders are summed.
RECURSIVE HhiSumFirstTen(_, _)
HhiSumFirstTen(holders, totalSupply) ==
    IF Len(holders) = 0 THEN 0
    ELSE HhiSumFirstTen(SubSeq(holders, 1, Len(holders) - 1), totalSupply)
         + ( IF Len(holders) <= TopN
               THEN SquaredTerm(BigIntOf(holders[Len(holders)].amount), totalSupply)
               ELSE 0 )

\* hhiSum after the map callback has run for every holder.
RECURSIVE HhiSum(_, _)
HhiSum(holders, totalSupply) ==
    IF Len(holders) = 0 THEN 0
    ELSE HhiSum(SubSeq(holders, 1, Len(holders) - 1), totalSupply)
         + SquaredTerm(BigIntOf(holders[Len(holders)].amount), totalSupply)

\* The comparator (a, b) => b.percentage - a.percentage.
Compare(a, b) == b.percentage - a.percentage

\* Mutant of InsertSorted: an unstable sort, x goes ahead of its ties.
RECURSIVE InsertSortedUnstable(_, _)
InsertSortedUnstable(sorted, x) ==
    IF Len(sorted) = 0 THEN <<x>>
    ELSE IF Compare(sorted[Len(sorted)], x) < 0 THEN Append(sorted, x)
    ELSE Append(InsertSortedUnstable(SubSeq(sorted, 1, Len(sorted) - 1), x),
                sorted[Len(sorted)])

\* Array.prototype.sort is stable: x goes behind every entry the comparator
\* does not order after it.
RECURSIVE InsertSorted(_, _)
InsertSorted(sorted, x) ==
    IF Len(sorted) = 0 THEN <<x>>
    ELSE IF Compare(sorted[Len(sorted)], x) <= 0 THEN Append(sorted, x)
    ELSE Append(InsertSorted(SubSeq(sorted, 1, Len(sorted) - 1), x),
                sorted[Len(sorted)])

RECURSIVE SortHolders(_)
SortHolders(entries) ==
    IF Len(entries) = 0 THEN << >>
    ELSE InsertSorted(SortHolders(SubSeq(entries, 1, Len(entries) - 1)),
                      entries[Len(entries)])

\* Mutant of SliceTop: the end index is taken as inclusive.
SliceTopInclusive(sortedHolders) ==
    SubSeq(sortedHolders, 1, Min(TopN + 1, Len(sortedHolders)))

\* sortedHolders.slice(0, 10)
SliceTop(sortedHolders) ==
    SubSeq(sortedHolders, 1, Min(TopN, Len(sortedHolders)))

\* The value calculateHHI returns once every amount has converted.
HhiResult(holders) ==
    LET totalSupply == SumAmounts(holders) IN
    IF totalSupply = 0 THEN emptyResult
    ELSE LET hhi == HhiSum(holders, totalSupply) IN
         [ hhi |-> hhi,
           totalSupply |-> BigIntToString(totalSupply),
           holderCount |-> Len(holders),
           topHolders |->
               SliceTop(SortHolders(holdersWithPercentage(holders, totalSupply))),
           concentrationLevel |-> getConcentrationLevel(hhi) ]

\* Mutant of calculateHHI: the catch block returns the empty result instead
\* of rethrowing.
calculateHHISwallow(holders) ==
    IF Len(holders) = 0 \/ \E i \in 1..Len(holders) : ~IsNumeric(holders[i].amount)
      THEN [ threw |-> FALSE, value |-> emptyResult ]
    ELSE [ threw |-> FALSE, value |-> HhiResult(holders) ]

\* calculateHHI on the holders getAllTokenHolders returned: a value, or the
\* error the catch block rethrows when BigInt rejects an amount.
calculateHHI(holders) ==
    IF Len(holders) = 0
      THEN [ threw |-> FALSE, value |-> emptyResult ]
    ELSE IF \E i \in 1..Len(holders) : ~IsNumeric(holders[i].amount)
      THEN [ threw |-> TRUE, message |-> "HHI calculation failed: SyntaxError" ]
    ELSE [ threw |-> FALSE, value |-> HhiResult(holders) ]

\* ------------------------------------------------------- getAllTokenHolders

\* Mutant of KeepAccount: the excluded owners are not looked at.
KeepAccountAnyOwner(acc) == acc.amount # ZeroString

\* The filter callback: the owner is not excluded and the amount string is
\* not the literal '0'.
KeepAccount(acc) ==
    acc.owner \notin EXCLUDED_ADDRESSES /\ acc.amount # ZeroString

\* response.value.filter(...).map(...): the holders of one page.
RECURSIVE PageHolders(_)
PageHolders(value) ==
    IF Len(value) = 0 THEN << >>
    ELSE LET rest == PageHolders(SubSeq(value, 1, Len(value) - 1))
             acc == value[Len(value)]
         IN IF KeepAccount(acc)
              THEN Append(rest, [ account |-> acc.owner, amount |-> acc.amount ])
              ELSE rest

\* Mutant of NextPageWanted: a full page ends the loop too.
NextPageWantedStrict(holders) == ~(Len(holders) <= PageSize)

\* Whether the loop goes on to the next page after a non-empty page:
\* the else branch of  if (holders.length < pageSize).
NextPageWanted(holders) == ~(Len(holders) < PageSize)

\* Mutant of NextPageIndex: the page index is not advanced.
NextPageIndexStuck(p) == p

\* page++ after a full page.
NextPageIndex(p) == p + 1

\* Mutant of HasMoreAfterError: the loop tries the page again.
HasMoreAfterErrorRetry == TRUE

\* hasMore as the catch block of the loop leaves it.
HasMoreAfterError == FALSE

\* ------------------------------------------------------------------ state

VARIABLES
    ledger,       \* the token accounts of the mint upstream, in page order
    endless,      \* whether upstream's account list goes on for ever, the
                  \* ledger's accounts repeating
    pc,           \* where the request is: start, loop, await, fetched,
                  \* returned, responded
    allHolders,   \* getAllTokenHolders: holders accumulated so far
    page,         \* getAllTokenHolders: index of the page to request
    hasMore,      \* getAllTokenHolders: the loop flag
    requests,     \* history: the page requests issued, in order
    inFlight,     \* history: requests issued and not yet answered
    failure,      \* history: the pages whose request failed, in order
    result,       \* what calculateHHI returned or threw
    response      \* what getHHI sent

vars == << ledger, endless, pc, allHolders, page, hasMore, requests, inFlight,
           failure, result, response >>

None == [ none |-> TRUE ]

\* Owners of the ledger's token accounts: an ordinary address and the
\* excluded ones.
Owners == { "A" } \cup EXCLUDED_ADDRESSES

\* Amount strings the ledger serves: a u64 in canonical decimal.
CanonicalAmounts == { <<0>>, <<1>>, <<2, 5>> }

\* Amount strings of any shape: also a zero with a leading zero, the empty
\* string and a string that is no number.
AnyAmounts == CanonicalAmounts \cup { <<0, 0>>, << >>, <<NonDigit>> }

RawAccounts(amounts) == [ owner : Owners, amount : amounts ]

SeqsUpTo(S, n) == UNION { [ 1..k -> S ] : k \in 0..n }

\* What upstream answers to { page, limit }: the slice of the ledger, or of
\* its endless repetition.
PageAt(p, limit) ==
    IF endless /\ Len(ledger) > 0
      THEN [ j \in 1..limit |-> ledger[((p * limit + j - 1) % Len(ledger)) + 1] ]
      ELSE SubSeq(ledger, p * limit + 1, Min((p + 1) * limit, Len(ledger)))

MintKinds == { "missing", "malformed", "valid" }

Init ==
    /\ ledger \in SeqsUpTo(RawAccounts(CanonicalAmounts), MaxAccounts)
    /\ endless = FALSE
    /\ pc = "start"
    /\ allHolders = << >>
    /\ page = 0
    /\ hasMore = TRUE
    /\ requests = << >>
    /\ inFlight = 0
    /\ failure = << >>
    /\ result = None
    /\ response = None

\* getHHI up to the call of calculateHHI: a missing or malformed mint is
\* answered with 400; otherwise calculateHHI starts getAllTokenHolders.
GetHHI(mint) ==
    /\ pc = "start"
    /\ IF mint # "valid"
         THEN /\ response' = [ status |-> 400, success |-> FALSE ]
              /\ pc' = "responded"
              /\ UNCHANGED << allHolders, page, hasMore >>
         ELSE /\ allHolders' = << >>
              /\ page' = 0
              /\ hasMore' = TRUE
              /\ pc' = "loop"
              /\ UNCHANGED response
    /\ UNCHANGED << ledger, endless, requests, inFlight, failure, result >>

\* while (hasMore): await this.rpcRequest('getProgramAccounts', ...)
RpcRequest ==
    /\ pc = "loop"
    /\ hasMore
    /\ requests' = Append(requests, [ page |-> page, limit |-> PageSize ])
    /\ inFlight' = inFlight + 1
    /\ pc' = "await"
    /\ UNCHANGED << ledger, endless, allHolders, page, hasMore, failure, result, response >>

\* The request resolves with a page: the rest of the try block.
RpcResult ==
    /\ pc = "await"
    /\ inFlight' = inFlight - 1
    /\ LET value == PageAt(page, PageSize) IN
       IF Len(value) = 0
         THEN /\ hasMore' = FALSE
              /\ UNCHANGED << allHolders, page >>
         ELSE LET holders == PageHolders(value) IN
              /\ allHolders' = allHolders \o holders
              /\ IF NextPageWanted(holders)
                   THEN /\ page' = NextPageIndex(page)
                        /\ UNCHANGED hasMore
                   ELSE /\ hasMore' = FALSE
                        /\ UNCHANGED page
    /\ pc' = "loop"
    /\ UNCHANGED << ledger, endless, requests, failure, result, response >>

\* The request fails (axios error or timeout, an RPC error envelope, or an
\* account the filter cannot decode): the catch block of the loop.
RpcFail(kind) ==
    /\ pc = "await"
    /\ inFlight' = inFlight - 1
    /\ failure' = Append(failure, [ page |-> page, kind |-> kind ])
    /\ hasMore' = HasMoreAfterError
    /\ pc' = "loop"
    /\ UNCHANGED << ledger, endless, allHolders, page, requests, result, response >>

FailureKinds == { "API Error", "RPC Error", "TypeError" }

\* The loop condition is false: return allHolders.
FetchReturn ==
    /\ pc = "loop"
    /\ ~hasMore
    /\ pc' = "fetched"
    /\ UNCHANGED << ledger, endless, allHolders, page, hasMore, requests, inFlight,
                    failure, result, response >>

\* calculateHHI after getAllTokenHolders has returned.
Calculate ==
    /\ pc = "fetched"
    /\ result' = calculateHHI(allHolders)
    /\ pc' = "returned"
    /\ UNCHANGED << ledger, endless, allHolders, page, hasMore, requests, inFlight,
                    failure, response >>

\* Mutant of Respond: a result without holders is answered as a failure.
RespondEmptyAsError ==
    /\ pc = "returned"
    /\ response' =
         IF result.threw
           THEN [ status |-> 500, success |-> FALSE, error |-> result.message ]
         ELSE IF result.value.holderCount = 0
           THEN [ status |-> 500, success |-> FALSE, error |-> "No active holders" ]
         ELSE [ status |-> 200, success |-> TRUE, data |-> result.value ]
    /\ pc' = "responded"
    /\ UNCHANGED << ledger, endless, allHolders, page, hasMore, requests, inFlight,
                    failure, result >>

\* getHHI after calculateHHI: 200 with the data, or 500 from the catch.
Respond ==
    /\ pc = "returned"
    /\ response' =
         IF result.threw
           THEN [ status |-> 500, success |-> FALSE, error |-> result.message ]
           ELSE [ status |-> 200, success |-> TRUE, data |-> result.value ]
    /\ pc' = "responded"
    /\ UNCHANGED << ledger, endless, allHolders, page, hasMore, requests, inFlight,
                    failure, result >>

Next ==
    \/ \E mint \in MintKinds : GetHHI(mint)
    \/ RpcRequest
    \/ RpcResult
    \/ \E kind \in FailureKinds : RpcFail(kind)
    \/ FetchReturn
    \/ Calculate
    \/ Respond

Spec == Init /\ [][Next]_vars

\* ------------------------------------------- calculateHHI on its own inputs

\* Holder records the fetch filter lets through: any owner that is not
\* excluded, any amount string but the literal '0'.
HolderRecords ==
    [ account : { "A", "B" }, amount : AnyAmounts \ { ZeroString } ]

\* Two records for the lists longer than TopN.
LongRecords ==
    { [ account |-> "A", amount |-> <<1>> ], [ account |-> "B", amount |-> <<2, 5>> ] }

HolderLists ==
    SeqsUpTo(HolderRecords, MaxShort) \cup SeqsUpTo(LongRecords, MaxHolders)

\* getAllTokenHolders has just returned a holder list; the fetch that led
\* to it is not part of this specification and its history is left empty.
InitCalc ==
    /\ allHolders \in HolderLists
    /\ pc = "fetched"
    /\ ledger = << >>
    /\ endless = FALSE
    /\ page = 0
    /\ hasMore = FALSE
    /\ requests = << >>
    /\ inFlight = 0
    /\ failure = << >>
    /\ result = None
    /\ response = None

NextCalc ==
    \/ Calculate
    \/ Respond

SpecCalc == InitCalc /\ [][NextCalc]_vars

\* ------------------------------------------ getAllTokenHolders on its own

\* getAllTokenHolders has just been called, against a ledger that ends or
\* one that goes on for ever.
InitLoop ==
    /\ ledger \in SeqsUpTo(RawAccounts(CanonicalAmounts), MaxLoopAccounts)
    /\ endless \in BOOLEAN
    /\ pc = "loop"
    /\ allHolders = << >>
    /\ page = 0
    /\ hasMore = TRUE
    /\ requests = << >>
    /\ inFlight = 0
    /\ failure = << >>
    /\ result = None
    /\ response = None

\* RpcRequest, followed only up to page MaxPages of an endless ledger.
RpcRequestCapped ==
    /\ endless => page < MaxPages
    /\ RpcRequest

\* Every request completes, with a page or with a failure.
RpcComplete ==
    \/ RpcResult
    \/ \E kind \in FailureKinds : RpcFail(kind)

NextLoop ==
    \/ RpcRequestCapped
    \/ RpcComplete
    \/ FetchReturn

\* The loop's own steps are taken when they can be, and every request in
\* flight completes.
SpecLoop ==
    /\ InitLoop
    /\ [][NextLoop]_vars
    /\ WF_vars(RpcRequestCapped)
    /\ WF_vars(RpcComplete)
    /\ WF_vars(FetchReturn)

\* ------------------------------------------------------------------ claims

\* calculateHHI has returned a value (it did not throw).
Returned ==
    /\ pc \in { "returned", "responded" }
    /\ result # None
    /\ ~result.threw

AllNumeric(holders) == \A i \in 1..Len(holders) : IsNumeric(holders[i].amount)

\* The decimal value of holder i's amount, and the exact total.
AmountAt(holders, i) == BigIntOf(holders[i].amount)

RECURSIVE ExactTotal(_, _)
ExactTotal(holders, n) ==
    IF n = 0 THEN 0 ELSE ExactTotal(holders, n - 1) + AmountAt(holders, n)

\* C1: for a non-empty fetched holder list with total supply T > 0, the hhi
\* calculateHHI returns is an integer in 0..10000, and it is 10000 if and
\* only if exactly one holder owns the entire supply.
C1_HhiRange ==
    LET T == ExactTotal(allHolders, Len(allHolders)) IN
    (Returned /\ Len(allHolders) > 0 /\ T > 0) =>
        /\ result.value.hhi \in 0..10000
        /\ result.value.hhi = 10000 <=>
             Cardinality({ i \in 1..Len(allHolders) : AmountAt(allHolders, i) = T }) = 1

\* C1 witness: a single holder owning the whole supply, hhi 10000.
C1_Witness ==
    /\ Returned
    /\ Len(allHolders) = 1
    /\ ExactTotal(allHolders, 1) > 0
    /\ result.value.hhi = 10000

\* The sum over holders 1..n of the integer-division term of the claim.
RECURSIVE TermSum(_, _, _)
TermSum(holders, n, T) ==
    IF n = 0 THEN 0
    ELSE TermSum(holders, n - 1, T)
         + (AmountAt(holders, n) * AmountAt(holders, n) * 10000) \div (T * T)

\* C2: hhi is the sum over ALL fetched holders, not only the ten placed in
\* topHolders, of (a * a * 10000) / (T * T) with integer division; four
\* holders of 25 each give terms of 625 and hhi 2500.
C2_HhiIsSumOverAll ==
    LET T == ExactTotal(allHolders, Len(allHolders)) IN
    (Returned /\ Len(allHolders) > 0 /\ T > 0) =>
        /\ result.value.hhi = TermSum(allHolders, Len(allHolders), T)
        /\ ( /\ Len(allHolders) = 4
             /\ \A i \in 1..4 : allHolders[i].amount = <<2, 5>> )
           => result.value.hhi = 2500

\* C2 witness: more holders than topHolders shows, and the ones left out
\* contribute to hhi.
C2_Witness ==
    /\ Returned
    /\ Len(allHolders) > TopN
    /\ Len(result.value.topHolders) = TopN
    /\ result.value.hhi >
         TermSum(result.value.topHolders, TopN,
                 ExactTotal(allHolders, Len(allHolders)))

\* C3: an empty fetched holder list, or one whose amounts sum to zero,
\* makes calculateHHI return exactly the empty sentinel, without failing.
C3_EmptySentinel ==
    ( /\ pc \in { "returned", "responded" }
      /\ result # None
      /\ \/ Len(allHolders) = 0
         \/ /\ AllNumeric(allHolders)
            /\ ExactTotal(allHolders, Len(allHolders)) = 0 )
    => /\ ~result.threw
       /\ result.value =
            [ hhi |-> 0,
              totalSupply |-> <<0>>,
              holderCount |-> 0,
              topHolders |-> << >>,
              concentrationLevel |-> "No active holders" ]

\* C3 witness: holders were fetched, their amounts sum to zero, and the
\* sentinel came back.
C3_Witness ==
    /\ Returned
    /\ Len(allHolders) > 0
    /\ ExactTotal(allHolders, Len(allHolders)) = 0
    /\ result.value.holderCount = 0

\* An account the claims count as an active holder's.
Eligible(acc) ==
    /\ acc.owner \notin { "11111111111111111111111111111111",
                          "1nc1nerator11111111111111111111111111111111" }
    /\ BigIntOf(acc.amount) # 0

\* The holder records of the eligible accounts of a raw sequence, in order.
EligibleHolders(raw) ==
    LET kept == SelectSeq(raw, Eligible) IN
    [ i \in 1..Len(kept) |->
        [ account |-> kept[i].owner, amount |-> kept[i].amount ] ]

\* The raw page the k-th request (k = 1, 2, ...) asked for.
RequestedPage(k) == PageAt(requests[k].page, requests[k].limit)

\* The fetch loop has ended: no further request will be issued.
LoopEnded ==
    \/ pc \in { "fetched", "returned", "responded" } /\ Len(requests) > 0
    \/ pc = "loop" /\ ~hasMore

\* A page on which the claims say the loop stops.
StopsOn(raw) ==
    \/ Len(raw) = 0
    \/ Len(EligibleHolders(raw)) < PageSize

C5_StopsExactlyWhen ==
    /\ \A k \in 1..(Len(requests) - 1) : ~StopsOn(RequestedPage(k))
    /\ (LoopEnded /\ failure = << >>) => StopsOn(RequestedPage(Len(requests)))
    /\ ( /\ pc \in { "fetched", "returned", "responded" }
         /\ failure = << >>
         /\ Len(requests) > 0
         /\ Len(ledger) = PageSize
         /\ \A i \in 1..Len(ledger) : Eligible(ledger[i]) )
       => /\ Len(requests) = 2
          /\ allHolders = EligibleHolders(ledger)

\* C5 witness: a full first page, an empty second page, two calls.
C5_Witness ==
    /\ pc = "fetched"
    /\ failure = << >>
    /\ Len(requests) = 2
    /\ Len(EligibleHolders(RequestedPage(1))) = PageSize
    /\ Len(RequestedPage(2)) = 0
    /\ Len(allHolders) = PageSize

\* C6: when the request of page k fails, no further request is issued (no
\* retry, no later page), the holders returned are exactly those of pages
\* 0..k-1, and no error reaches the caller.
C6_FailureEndsFetch ==
    failure # << >> =>
        LET k == failure[1].page IN
        /\ Len(failure) = 1
        /\ Len(requests) = k + 1
        /\ requests[k + 1].page = k
        /\ pc # "await"
        /\ allHolders = EligibleHolders(SubSeq(ledger, 1, k * PageSize))
        /\ pc \in { "returned", "responded" } => (result # None /\ ~result.threw)

\* C6 witness: page 0 was fetched, the request of page 1 failed, and the
\* fetch returned the holders of page 0.
C6_Witness ==
    /\ pc = "fetched"
    /\ failure # << >>
    /\ failure[1].page = 1
    /\ Len(allHolders) = PageSize

\* C7: when no page request fails, every upstream account with a
\* non-excluded owner and a non-zero amount, on whatever page it lies, is
\* in the holder list getAllTokenHolders returns.
C7_CompleteHolderSet ==
    (pc = "fetched" /\ failure = << >>) => allHolders = EligibleHolders(ledger)

\* The fetched holders with the percentage the claims give each, in fetch
\* order: (a * 1000000) / T in units of 1/10000 percent.
FetchedWithShare ==
    LET T == ExactTotal(allHolders, Len(allHolders)) IN
    [ i \in 1..Len(allHolders) |->
        [ account |-> allHolders[i].account,
          amount |-> allHolders[i].amount,
          percentage |-> (AmountAt(allHolders, i) * 1000000) \div T ] ]

\* The entries of a sequence that have percentage p, in order.
WithShare(entries, p) == SelectSeq(entries, LAMBDA e : e.percentage = p)

IsPrefix(s, t) == Len(s) <= Len(t) /\ s = SubSeq(t, 1, Len(s))

\* calculateHHI has returned a result that is not the empty sentinel.
ReturnedRanking ==
    /\ Returned
    /\ Len(allHolders) > 0
    /\ ExactTotal(allHolders, Len(allHolders)) > 0

\* C8: topHolders is sorted by descending percentage, and holders of equal
\* percentage appear in it in the order in which they were fetched.
C8_SortedStable ==
    ReturnedRanking =>
        LET top == result.value.topHolders IN
        /\ \A i, j \in 1..Len(top) :
             i < j => top[i].percentage >= top[j].percentage
        /\ \A i \in 1..Len(top) :
             IsPrefix(WithShare(top, top[i].percentage),
                      WithShare(FetchedWithShare, top[i].percentage))

\* C8 witness: two holders of equal percentage and different accounts are
\* in topHolders behind a holder that was fetched after them.
C8_Witness ==
    /\ ReturnedRanking
    /\ LET top == result.value.topHolders IN
       /\ Len(top) = 3
       /\ top[1].account = allHolders[3].account
       /\ top[1].percentage > top[2].percentage
       /\ top[2].percentage = top[3].percentage
       /\ top[2].account # top[3].account

\* How many entries of a sequence have percentage p.
CountShare(entries, p) == Len(WithShare(entries, p))

\* C9: topHolders is the first 10 entries of the percentage-sorted holder
\* sequence, so its length is min(10, holderCount).
C9_TopTen ==
    Returned =>
        LET top == result.value.topHolders IN
        /\ Len(top) = Min(10, result.value.holderCount)
        /\ ReturnedRanking =>
             /\ result.value.holderCount = Len(allHolders)
             /\ \A i \in 1..Len(top) :
                  CountShare(top, top[i].percentage)
                     <= CountShare(FetchedWithShare, top[i].percentage)
             /\ \A i \in 1..Len(allHolders) :
                  FetchedWithShare[i].percentage > top[Len(top)].percentage
                    => CountShare(top, FetchedWithShare[i].percentage)
                         = CountShare(FetchedWithShare, FetchedWithShare[i].percentage)

\* C9 witness: more than 10 holders, 10 of them in topHolders, the largest
\* one fetched last.
C9_Witness ==
    /\ ReturnedRanking
    /\ Len(allHolders) = TopN + 1
    /\ Len(result.value.topHolders) = TopN
    /\ result.value.topHolders[1].account = "B"
    /\ allHolders[TopN + 1].account = "B"
    /\ \A i \in 1..TopN : allHolders[i].account = "A"

\* C10: in a result that is not the sentinel the label follows from hhi
\* alone by the thresholds 5000, 2500 and 1500; a single holder of the whole
\* supply gives hhi 10000 and the Extreme label.
C10_LabelByThreshold ==
    ReturnedRanking =>
        LET hhi == result.value.hhi
            label == result.value.concentrationLevel
        IN
        /\ hhi >= 5000 <=> label = "Extreme concentration (risk of manipulation)"
        /\ (2500 <= hhi /\ hhi < 5000) <=> label = "High concentration"
        /\ (1500 <= hhi /\ hhi < 2500) <=> label = "Moderate concentration"
        /\ hhi < 1500 <=> label = "Decentralized"
        /\ Len(allHolders) = 1 =>
             /\ hhi = 10000
             /\ label = "Extreme concentration (risk of manipulation)"

\* C10 witness: hhi sits exactly on the 2500 threshold and the label is
\* High concentration.
C10_Witness ==
    /\ ReturnedRanking
    /\ result.value.hhi = 2500
    /\ result.value.concentrationLevel = "High concentration"

\* An amount string BigInt cannot convert: it has a character that is no
\* decimal digit.
Malformed(amount) == \E j \in 1..Len(amount) : amount[j] \notin 0..9

\* C11: a fetched holder whose amount string is malformed makes
\* calculateHHI throw and the controller answer success = false with status
\* 500; the failure never comes back as a returned result such as the empty
\* sentinel.
C11_FailureSurfaced ==
    ( /\ pc \in { "returned", "responded" }
      /\ result # None
      /\ \E i \in 1..Len(allHolders) : Malformed(allHolders[i].amount) )
    => /\ result.threw
       /\ pc = "responded" =>
            /\ response.success = FALSE
            /\ response.status = 500

\* C11 witness: a list with a good and a malformed amount was fetched,
\* calculateHHI threw, and the controller answered 500.
C11_Witness ==
    /\ pc = "responded"
    /\ Len(allHolders) = 2
    /\ allHolders[1].amount = <<2, 5>>
    /\ Malformed(allHolders[2].amount)
    /\ result.threw
    /\ response.success = FALSE

\* A decimal string without a sign or a leading zero.
CanonicalDecimal(s) ==
    /\ Len(s) >= 1
    /\ \A j \in 1..Len(s) : s[j] \in 0..9
    /\ Len(s) > 1 => s[1] # 0

C13_SequentialPages ==
    /\ inFlight \in { 0, 1 }
    /\ inFlight = 1 <=> pc = "await"
    /\ \A k \in 1..Len(requests) :
         /\ requests[k].page = k - 1
         /\ requests[k].limit = requests[1].limit
    /\ \A k, l \in 1..Len(requests) :
         k # l => requests[k].page # requests[l].page

\* C13 witness: the third request is in flight after two answered ones.
C13_Witness ==
    /\ pc = "await"
    /\ inFlight = 1
    /\ Len(requests) = 3
    /\ requests[3].page = 2

\* The answer getHHI gives for a token without active holders.
NoHoldersAnswer ==
    [ status |-> 200,
      success |-> TRUE,
      data |-> [ hhi |-> 0,
                 totalSupply |-> <<0>>,
                 holderCount |-> 0,
                 topHolders |-> << >>,
                 concentrationLevel |-> "No active holders" ] ]

\* C14: when the request of page 0 fails, calculateHHI raises no error and
\* returns exactly the empty sentinel, and the controller answers with
\* success = true: the same output as for a token that has no active
\* holders at all.
C14_FirstPageFailureLooksEmpty ==
    /\ ( /\ failure # << >>
         /\ failure[1].page = 0
         /\ pc \in { "returned", "responded" } )
       => /\ result = [ threw |-> FALSE, value |-> NoHoldersAnswer.data ]
          /\ pc = "responded" => response = NoHoldersAnswer
    /\ ( /\ failure = << >>
         /\ Len(EligibleHolders(ledger)) = 0
         /\ pc = "responded"
         /\ result # None )
       => response = NoHoldersAnswer

\* C14 witness: the ledger has eligible holders, the request of page 0
\* failed, and the controller answered 200 with the sentinel.
C14_Witness ==
    /\ pc = "responded"
    /\ failure # << >>
    /\ failure[1].page = 0
    /\ Len(EligibleHolders(ledger)) > 0
    /\ response = NoHoldersAnswer

\* Upstream keeps answering with pages whose post-filter record count is
\* the page size.
FullPagesForEver ==
    /\ endless
    /\ Len(ledger) > 0
    /\ \A i \in 1..Len(ledger) : Eligible(ledger[i])

\* C15: the loop ends whenever every request completes and upstream comes
\* to answer with a failure, an empty page or a page with fewer post-filter
\* records than the page size; and while upstream keeps answering with full
\* post-filter pages the loop does not stop, however many pages that takes.
C15_TerminatesUnlessFullForEver ==
    /\ []( ( /\ pc \in { "loop", "await" }
             /\ ~FullPagesForEver \/ failure # << >> )
           => <>(pc = "fetched") )
    /\ []( (FullPagesForEver /\ failure = << >>)
           => /\ pc \in { "loop", "await" }
              /\ hasMore
              /\ page = (IF pc = "await" THEN Len(requests) - 1 ELSE Len(requests)) )

\* C15 witness: against an endless ledger of eligible accounts the loop has
\* asked for MaxPages pages, got them all, and still wants more.
C15_Witness ==
    /\ FullPagesForEver
    /\ failure = << >>
    /\ pc = "loop"
    /\ hasMore
    /\ Len(requests) = MaxPages
    /\ Len(allHolders) = MaxPages * PageSize

====
